---- MODULE Spec2Model ----
(***************************************************************************)
(* errtools: wrapping, chain traversal (downcast_refchain), serialization  *)
(* of error chains (src/src/lib.rs) and the mirror deserializer            *)
(* (src/src/deserialize.rs).                                               *)
(*                                                                         *)
(* An error value is a node of a heap: it has a concrete type, a Display   *)
(* message, an optional backtrace and an optional source (the id of the    *)
(* node it owns).  A Result is Ok(v) or Err(id of the head node).          *)
(***************************************************************************)
EXTENDS Integers, Sequences, FiniteSets, TLC

\* ------------------------------------------------------------------ bounds
\* number of wrap_err / wrap_err_with calls applied to one result
MaxWraps == 2
\* number of fields a received keyed node may carry
MaxFields == 3
\* nesting depth of the logical records handed to the deserializer
MaxDepth == 3

\* ------------------------------------------------------------ Option<T>
None == [some |-> FALSE]
Some(x) == [some |-> TRUE, v |-> x]

\* ------------------------------------------------------- the error types
\* Concrete error types of the tests and the examples.
Types == {"E1", "E2", "E3", "io::Error", "errtools::deserialize::Error",
          "SourceError", "PublicEnumError", "PrivateKind"}

\* The types T that downcast_refchain is asked for.
Targets == {"E1", "E2", "io::Error", "SourceError", "PublicEnumError", "PrivateKind"}

\* The types of the examples that implement From<(E, String)>.
WrapTypes == {"PublicEnumError", "PrivateKind"}

\* A node of the heap: one error value.
Node(ty, m, bt, src) == [type |-> ty, msg |-> m, backtrace |-> bt, source |-> src]

\* The chains the tests and the examples start from, as heaps: the root is
\* node 1 and the head the last node.  E3 stands for an error whose
\* backtrace() is Some.
BaseChains ==
    { <<Node("E1", "Fake Error", None, 0), Node("E2", "Fake Error 2", None, 1)>>,
      <<Node("E3", "Non Send Error", Some("<backtrace>"), 0)>>,
      <<Node("io::Error", "file not found", None, 0)>>,
      <<Node("SourceError", "root cause", None, 0),
        Node("errtools::deserialize::Error", "outer error", None, 1)>> }

\* Display values handed to wrap_err as context.
StrCtx(s) == [kind |-> "str", s |-> s]
IntCtx(n) == [kind |-> "int", n |-> n]
Contexts == {StrCtx("reading config"), StrCtx("startup failed"), IntCtx(404)}

\* format!("{}", msg)
Format(d) == IF d.kind = "int" THEN ToString(d.n) ELSE d.s

\* Result<T, E>
Ok(v) == [ok |-> TRUE, v |-> v]
Err(e) == [ok |-> FALSE, e |-> e]

\* Variant: the constructor keeps the message and drops the source.
FromDropsSource(E2, source, msg) == Node(E2, msg, None, 0)

\* E2::from((source, msg)) of the examples: a new node owning `source`.
From(E2, source, msg) == Node(E2, msg, None, source)

\* ----------------------------------------------------------------- state
VARIABLES
    base,      \* history: the error values the run started with
    heap,      \* the error values built so far: Seq of Node, source = index or 0
    result,    \* the Result being propagated: Ok(v) or Err(index into heap)
    wraps,     \* history: the contexts of the wrap calls that hit a failure
    last,      \* history: the last wrap call and what it invoked
    dc,        \* downcast_refchain: position of the walk and its return value
    record,    \* the ErrorRecord the last serialize call emitted
    wire,      \* the documents handed to the deserializer: keyed, positional
    out        \* what the deserializer returned for each of them

vars == <<base, heap, result, wraps, last, dc, record, wire, out>>

NoCall == [op |-> "none"]
DcIdle == [pc |-> "idle"]
NoRecord == [entry |-> "none"]
NoDoc == [t |-> "absent"]
NoOut == [ran |-> FALSE]
Forms == {"keyed", "positional"}
NoWire == [origin |-> "none", keyed |-> NoDoc, positional |-> NoDoc]
NoOuts == [f \in Forms |-> NoOut]

\* error.source(): the node the error owns, None at the root.
Source(h, i) == IF h[i].source = 0 THEN None ELSE Some(h[i].source)

\* The chain that starts at node i, head to root, as node indices.
RECURSIVE ChainFrom(_, _)
ChainFrom(h, i) == IF i = 0 THEN <<>> ELSE <<i>> \o ChainFrom(h, h[i].source)

\* The chain of a Result: empty for Ok.
ChainOf(h, r) == IF r.ok THEN <<>> ELSE ChainFrom(h, r.e)

\* report(): the Display messages head to root.
Messages(h, c) == [k \in 1..Len(c) |-> h[c[k]].msg]

\* ------------------------------------------------------------- wrap_err
\* Variant: the context overwrites the head instead of becoming a new one.
WrapErrInPlace(d, E2) ==
    /\ dc.pc # "loop"
    /\ Len(wraps) < MaxWraps
    /\ IF result.ok
         THEN /\ UNCHANGED <<heap, result, wraps>>
              /\ last' = [op |-> "wrap_err", before |-> result, ctx |-> d,
                          calls |-> 0, built |-> 0, arg |-> None]
         ELSE /\ heap' = [heap EXCEPT ![result.e] =
                             From(E2, heap[result.e].source, Format(d))]
              /\ result' = result
              /\ wraps' = Append(wraps, d)
              /\ last' = [op |-> "wrap_err", before |-> result, ctx |-> d,
                          calls |-> 0, built |-> 1,
                          arg |-> Some(<<result.e, Format(d)>>)]
    /\ dc' = DcIdle
    /\ record' = NoRecord
    /\ wire' = NoWire
    /\ out' = NoOuts
    /\ UNCHANGED base

\* self.map_err(|source| E2::from((source, format!("{}", msg))))
WrapErr(d, E2) ==
    /\ dc.pc # "loop"
    /\ Len(wraps) < MaxWraps
    /\ IF result.ok
         THEN /\ UNCHANGED <<heap, result, wraps>>
              /\ last' = [op |-> "wrap_err", before |-> result, ctx |-> d,
                          calls |-> 0, built |-> 0, arg |-> None]
         ELSE /\ heap' = Append(heap, From(E2, result.e, Format(d)))
              /\ result' = Err(Len(heap) + 1)
              /\ wraps' = Append(wraps, d)
              /\ last' = [op |-> "wrap_err", before |-> result, ctx |-> d,
                          calls |-> 0, built |-> 1,
                          arg |-> Some(<<result.e, Format(d)>>)]
    /\ dc' = DcIdle
    /\ record' = NoRecord
    /\ wire' = NoWire
    /\ out' = NoOuts
    /\ UNCHANGED base

\* Variant: the callback is called before the result is looked at.
WrapErrWithEager(d, E2) ==
    /\ dc.pc # "loop"
    /\ Len(wraps) < MaxWraps
    /\ IF result.ok
         THEN /\ UNCHANGED <<heap, result, wraps>>
              /\ last' = [op |-> "wrap_err_with", before |-> result, ctx |-> d,
                          calls |-> 1, built |-> 0, arg |-> None]
         ELSE /\ heap' = Append(heap, From(E2, result.e, Format(d)))
              /\ result' = Err(Len(heap) + 1)
              /\ wraps' = Append(wraps, d)
              /\ last' = [op |-> "wrap_err_with", before |-> result, ctx |-> d,
                          calls |-> 1, built |-> 1,
                          arg |-> Some(<<result.e, Format(d)>>)]
    /\ dc' = DcIdle
    /\ record' = NoRecord
    /\ wire' = NoWire
    /\ out' = NoOuts
    /\ UNCHANGED base

\* self.map_err(|source| E2::from((source, format!("{}", msg()))))
\* d is the value the callback returns when it is called.
WrapErrWith(d, E2) ==
    /\ dc.pc # "loop"
    /\ Len(wraps) < MaxWraps
    /\ IF result.ok
         THEN /\ UNCHANGED <<heap, result, wraps>>
              /\ last' = [op |-> "wrap_err_with", before |-> result, ctx |-> d,
                          calls |-> 0, built |-> 0, arg |-> None]
         ELSE /\ heap' = Append(heap, From(E2, result.e, Format(d)))
              /\ result' = Err(Len(heap) + 1)
              /\ wraps' = Append(wraps, d)
              /\ last' = [op |-> "wrap_err_with", before |-> result, ctx |-> d,
                          calls |-> 1, built |-> 1,
                          arg |-> Some(<<result.e, Format(d)>>)]
    /\ dc' = DcIdle
    /\ record' = NoRecord
    /\ wire' = NoWire
    /\ out' = NoOuts
    /\ UNCHANGED base

\* ---------------------------------------------------- downcast_refchain
\* Variant: the type check succeeds for every error.
DowncastRefAny(h, i, T) == Some(i)

\* error.downcast_ref::<T>(): Some exactly when the node's type is T.
DowncastRef(h, i, T) == IF h[i].type = T THEN Some(i) ELSE None

\* let mut cur_error = Some(self as &dyn Error);
DowncastStart(T) ==
    /\ dc.pc # "loop"
    /\ ~result.ok
    /\ dc' = [pc |-> "loop", target |-> T, self |-> result.e,
              cur |-> Some(result.e), checked |-> <<>>, ret |-> None]
    /\ record' = NoRecord
    /\ wire' = NoWire
    /\ out' = NoOuts
    /\ UNCHANGED <<base, heap, result, wraps, last>>

\* Variant: a miss leaves cur_error where it is.
DowncastStepStuck ==
    /\ dc.pc = "loop"
    /\ IF ~dc.cur.some
         THEN dc' = [dc EXCEPT !.pc = "done", !.ret = None]
         ELSE LET hit == DowncastRef(heap, dc.cur.v, dc.target)
              IN  IF hit.some
                    THEN dc' = [dc EXCEPT !.pc = "done", !.ret = hit,
                                          !.checked = Append(@, dc.cur.v)]
                    ELSE dc' = dc
    /\ UNCHANGED <<base, heap, result, wraps, last, record, wire, out>>

\* One evaluation of the while-let condition and, when it holds, of the body.
DowncastStep ==
    /\ dc.pc = "loop"
    /\ IF ~dc.cur.some
         THEN dc' = [dc EXCEPT !.pc = "done", !.ret = None]
         ELSE LET hit == DowncastRef(heap, dc.cur.v, dc.target)
              IN  IF hit.some
                    THEN dc' = [dc EXCEPT !.pc = "done", !.ret = hit,
                                          !.checked = Append(@, dc.cur.v)]
                    ELSE dc' = [dc EXCEPT !.cur = Source(heap, dc.cur.v),
                                          !.checked = Append(@, dc.cur.v)]
    /\ UNCHANGED <<base, heap, result, wraps, last, record, wire, out>>

\* --------------------------------------------------------- serialization
\* The values a Serialize impl hands to a Serializer.
VStr(s) == [d |-> "str", s |-> s]
VNone == [d |-> "none"]
VSome(x) == [d |-> "some", v |-> x]
VStruct(name, fields) == [d |-> "struct", name |-> name, fields |-> fields]
VField(k, x) == [key |-> k, val |-> x]

\* Option<String> as a serializer value.
VOptStr(o) == IF o.some THEN VSome(VStr(o.v)) ELSE VNone

\* std::any::type_name::<E>()
TypeName(ty) == ty

\* Variant: the record of a node is written without following its source.
SerializeableErrorFlat(h, i) ==
    VStruct("error",
        << VField("msg", VStr(h[i].msg)),
           VField("backtrace", VOptStr(h[i].backtrace)),
           VField("source", VNone) >>)

\* impl Serialize for SerializeableError: msg, backtrace, source.
RECURSIVE SerializeableError(_, _)
SerializeableError(h, i) ==
    VStruct("error",
        << VField("msg", VStr(h[i].msg)),
           VField("backtrace", VOptStr(h[i].backtrace)),
           VField("source",
                  IF Source(h, i).some
                    THEN VSome(SerializeableError(h, Source(h, i).v))
                    ELSE VNone) >>)

\* impl Serialize for SerializeableConcreteError: type, msg, backtrace, source.
SerializeableConcreteError(h, i) ==
    VStruct("error",
        << VField("type", VStr(TypeName(h[i].type))),
           VField("msg", VStr(h[i].msg)),
           VField("backtrace", VOptStr(h[i].backtrace)),
           VField("source",
                  IF Source(h, i).some
                    THEN VSome(SerializeableError(h, Source(h, i).v))
                    ELSE VNone) >>)

\* ----------------------------------------------------------- the formats
\* Documents: null, a string, Some(x) (tagged formats only), a map of
\* key/value entries, a sequence of elements.
DNull == [t |-> "null"]
DStr(s) == [t |-> "str", s |-> s]
DSome(x) == [t |-> "some", v |-> x]
DMap(es) == [t |-> "map", es |-> es]
DSeq(xs) == [t |-> "seq", xs |-> xs]
DEntry(k, x) == [key |-> k, val |-> x]

\* serde_json: a struct is an object keyed by field name, None is null,
\* Some(x) is x.
RECURSIVE Json(_)
Json(x) ==
    CASE x.d = "str" -> DStr(x.s)
      [] x.d = "none" -> DNull
      [] x.d = "some" -> Json(x.v)
      [] x.d = "struct" ->
            DMap([k \in 1..Len(x.fields) |->
                    DEntry(x.fields[k].key, Json(x.fields[k].val))])

\* bincode: a struct is the sequence of its field values, an Option carries
\* a tag.
RECURSIVE Bincode(_)
Bincode(x) ==
    CASE x.d = "str" -> DStr(x.s)
      [] x.d = "none" -> DNull
      [] x.d = "some" -> DSome(Bincode(x.v))
      [] x.d = "struct" ->
            DSeq([k \in 1..Len(x.fields) |-> Bincode(x.fields[k].val)])

\* A document in flight, with the format that wrote it.
Doc(f, x) == [fmt |-> f, doc |-> x]

\* ErrTools::serialize followed by the format's to_string / serialize.
Serialize(entry) ==
    /\ dc.pc # "loop"
    /\ ~result.ok
    /\ LET x == IF entry = "concrete"
                  THEN SerializeableConcreteError(heap, result.e)
                  ELSE SerializeableError(heap, result.e)
       IN  /\ record' = [entry |-> entry, self |-> result.e, v |-> x]
           /\ wire' = [origin |-> "serialize",
                       keyed |-> Doc("json", Json(x)),
                       positional |-> Doc("bincode", Bincode(x))]
    /\ out' = NoOuts
    /\ dc' = DcIdle
    /\ UNCHANGED <<base, heap, result, wraps, last>>

\* ------------------------------------------------------- deserialization
\* const FIELDS
FIELDS == <<"type_name", "msg", "source">>

\* Result<_, D::Error> of the deserializer.
DeOk(x) == [ok |-> TRUE, v |-> x]
DeErr(kind, field, len) == [ok |-> FALSE, kind |-> kind, field |-> field, len |-> len]
unknown_field(name) == DeErr("unknown_field", name, -1)
duplicate_field(name) == DeErr("duplicate_field", name, -1)
missing_field(name) == DeErr("missing_field", name, -1)
invalid_length(n) == DeErr("invalid_length", "", n)
invalid_type(found) == DeErr("invalid_type", found, -1)
trailing_characters == DeErr("trailing_characters", "", -1)

\* Variant: the names are taken from FIELDS[1..], one place off.
as_strShifted(field) ==
    CASE field = "TypeName" -> FIELDS[2]
      [] field = "Msg" -> FIELDS[3]
      [] field = "Source" -> FIELDS[3]

\* Field::as_str
as_str(field) ==
    CASE field = "TypeName" -> FIELDS[1]
      [] field = "Msg" -> FIELDS[2]
      [] field = "Source" -> FIELDS[3]

\* FieldVisitor::visit_str
visit_str(value) ==
    CASE value = "type_name" -> DeOk("TypeName")
      [] value = "msg" -> DeOk("Msg")
      [] value = "source" -> DeOk("Source")
      [] OTHER -> unknown_field(value)

\* String::deserialize: the type of the msg slot, and of the type_name
\* value that visit_map reads.
DecString(f, x) == IF x.t = "str" THEN DeOk(x.s) ELSE invalid_type(x.t)

\* Option<String>::deserialize: the type of the type_name slot that
\* visit_seq reads.  A tagged format reads the tag, and a value written
\* without one is taken as a rejection; a self-describing format takes null
\* for None and anything else for the value.
DecOptString(f, x) ==
    IF x.t = "null" THEN DeOk(None)
    ELSE IF f = "bincode"
      THEN IF x.t = "some"
             THEN LET r == DecString(f, x.v)
                  IN  IF r.ok THEN DeOk(Some(r.v)) ELSE r
             ELSE invalid_type(x.t)
      ELSE LET r == DecString(f, x)
           IN  IF r.ok THEN DeOk(Some(r.v)) ELSE r

RECURSIVE DecOptSource(_, _)
RECURSIVE SourceErrorDeserialize(_, _)
RECURSIVE SourceErrorVisitSeq(_, _)
RECURSIVE SourceErrorVisitMap(_, _, _, _, _)

\* Option<Box<SourceError>>::deserialize: the type of every source slot.
DecOptSource(f, x) ==
    IF x.t = "null" THEN DeOk(None)
    ELSE IF f = "bincode"
      THEN IF x.t = "some"
             THEN LET r == SourceErrorDeserialize(f, x.v)
                  IN  IF r.ok THEN DeOk(Some(r.v)) ELSE r
             ELSE invalid_type(x.t)
      ELSE LET r == SourceErrorDeserialize(f, x)
           IN  IF r.ok THEN DeOk(Some(r.v)) ELSE r

\* SourceErrorVisitor::visit_seq
SourceErrorVisitSeq(f, xs) ==
    IF Len(xs) < 1 THEN invalid_length(1)
    ELSE LET msg == DecString(f, xs[1]) IN
    IF ~msg.ok THEN msg
    ELSE IF Len(xs) < 2 THEN invalid_length(2)
    ELSE LET source == DecOptSource(f, xs[2]) IN
    IF ~source.ok THEN source
    ELSE DeOk([msg |-> msg.v, source |-> source.v])

\* Variant: a repeated field overwrites the earlier value.
RECURSIVE SourceErrorVisitMapLastWins(_, _, _, _, _)
SourceErrorVisitMapLastWins(f, es, k, msg, source) ==
    IF k > Len(es)
      THEN IF ~msg.some THEN missing_field("msg")
           ELSE IF ~source.some THEN missing_field("source")
           ELSE DeOk([msg |-> msg.v, source |-> source.v])
      ELSE LET key == visit_str(es[k].key) IN
           IF ~key.ok THEN key
           ELSE IF key.v = "Msg"
             THEN LET r == DecString(f, es[k].val) IN
                  IF ~r.ok THEN r
                  ELSE SourceErrorVisitMapLastWins(f, es, k + 1, Some(r.v), source)
           ELSE IF key.v = "Source"
             THEN LET r == DecOptSource(f, es[k].val) IN
                  IF ~r.ok THEN r
                  ELSE SourceErrorVisitMapLastWins(f, es, k + 1, msg, Some(r.v))
           ELSE unknown_field(as_str(key.v))

\* SourceErrorVisitor::visit_map: the loop over the keys from entry k on,
\* then the missing-field checks.  msg and source are the Option locals.
SourceErrorVisitMap(f, es, k, msg, source) ==
    IF k > Len(es)
      THEN IF ~msg.some THEN missing_field("msg")
           ELSE IF ~source.some THEN missing_field("source")
           ELSE DeOk([msg |-> msg.v, source |-> source.v])
      ELSE LET key == visit_str(es[k].key) IN
           IF ~key.ok THEN key
           ELSE IF key.v = "Msg"
             THEN IF msg.some THEN duplicate_field("msg")
                  ELSE LET r == DecString(f, es[k].val) IN
                       IF ~r.ok THEN r
                       ELSE SourceErrorVisitMap(f, es, k + 1, Some(r.v), source)
           ELSE IF key.v = "Source"
             THEN IF source.some THEN duplicate_field("source")
                  ELSE LET r == DecOptSource(f, es[k].val) IN
                       IF ~r.ok THEN r
                       ELSE SourceErrorVisitMap(f, es, k + 1, msg, Some(r.v))
           ELSE unknown_field(as_str(key.v))

\* The format's deserialize_struct, asked for `n` fields: a self-describing
\* format gives an object to visit_map and an array to visit_seq (and wants
\* the array used up); a tagless format gives the next n values to
\* visit_seq.
Take(xs, n) == IF Len(xs) <= n THEN xs ELSE SubSeq(xs, 1, n)

\* impl Deserialize for SourceError
SourceErrorDeserialize(f, x) ==
    IF f = "bincode"
      THEN IF x.t = "seq" THEN SourceErrorVisitSeq(f, Take(x.xs, 2))
           ELSE invalid_type(x.t)
      ELSE IF x.t = "map" THEN SourceErrorVisitMap(f, x.es, 1, None, None)
           ELSE IF x.t = "seq"
             THEN LET r == SourceErrorVisitSeq(f, x.xs) IN
                  IF r.ok /\ Len(x.xs) > 2 THEN trailing_characters ELSE r
           ELSE invalid_type(x.t)

\* Variant: the positional form reads msg before type_name.
ErrorVisitSeqMsgFirst(f, xs) ==
    IF Len(xs) < 1 THEN invalid_length(0)
    ELSE LET msg == DecString(f, xs[1]) IN
    IF ~msg.ok THEN msg
    ELSE IF Len(xs) < 2 THEN invalid_length(1)
    ELSE LET type_name == DecOptString(f, xs[2]) IN
    IF ~type_name.ok THEN type_name
    ELSE IF Len(xs) < 3 THEN invalid_length(2)
    ELSE LET source == DecOptSource(f, xs[3]) IN
    IF ~source.ok THEN source
    ELSE DeOk([type_name |-> type_name.v, msg |-> msg.v, source |-> source.v])

\* ErrorVisitor::visit_seq
ErrorVisitSeq(f, xs) ==
    IF Len(xs) < 1 THEN invalid_length(0)
    ELSE LET type_name == DecOptString(f, xs[1]) IN
    IF ~type_name.ok THEN type_name
    ELSE IF Len(xs) < 2 THEN invalid_length(1)
    ELSE LET msg == DecString(f, xs[2]) IN
    IF ~msg.ok THEN msg
    ELSE IF Len(xs) < 3 THEN invalid_length(2)
    ELSE LET source == DecOptSource(f, xs[3]) IN
    IF ~source.ok THEN source
    ELSE DeOk([type_name |-> type_name.v, msg |-> msg.v, source |-> source.v])

\* ErrorVisitor::visit_map
RECURSIVE ErrorVisitMap(_, _, _, _, _, _)
ErrorVisitMap(f, es, k, type_name, msg, source) ==
    IF k > Len(es)
      THEN IF ~msg.some THEN missing_field("msg")
           ELSE IF ~source.some THEN missing_field("source")
           ELSE DeOk([type_name |-> type_name, msg |-> msg.v, source |-> source.v])
      ELSE LET key == visit_str(es[k].key) IN
           IF ~key.ok THEN key
           ELSE IF key.v = "TypeName"
             THEN IF type_name.some THEN duplicate_field("type_name")
                  ELSE LET r == DecString(f, es[k].val) IN
                       IF ~r.ok THEN r
                       ELSE ErrorVisitMap(f, es, k + 1, Some(r.v), msg, source)
           ELSE IF key.v = "Msg"
             THEN IF msg.some THEN duplicate_field("msg")
                  ELSE LET r == DecString(f, es[k].val) IN
                       IF ~r.ok THEN r
                       ELSE ErrorVisitMap(f, es, k + 1, type_name, Some(r.v), source)
           ELSE IF source.some THEN duplicate_field("source")
                ELSE LET r == DecOptSource(f, es[k].val) IN
                     IF ~r.ok THEN r
                     ELSE ErrorVisitMap(f, es, k + 1, type_name, msg, Some(r.v))

\* impl Deserialize for Error
ErrorDeserialize(f, x) ==
    IF f = "bincode"
      THEN IF x.t = "seq" THEN ErrorVisitSeq(f, Take(x.xs, Len(FIELDS)))
           ELSE invalid_type(x.t)
      ELSE IF x.t = "map" THEN ErrorVisitMap(f, x.es, 1, None, None, None)
           ELSE IF x.t = "seq"
             THEN LET r == ErrorVisitSeq(f, x.xs) IN
                  IF r.ok /\ Len(x.xs) > Len(FIELDS) THEN trailing_characters ELSE r
           ELSE invalid_type(x.t)

\* impl std::error::Error for Error / SourceError, impl Display: the
\* messages of a deserialized chain, head to root.
RECURSIVE Report(_)
Report(e) == <<e.msg>> \o (IF e.source.some THEN Report(e.source.v) ELSE <<>>)

\* serde_json::from_str / bincode::deserialize into deserialize::Error
Deserialize(form) ==
    /\ wire[form] # NoDoc
    /\ ~out[form].ran
    /\ out' = [out EXCEPT ![form] =
                 [ran |-> TRUE,
                  res |-> ErrorDeserialize(wire[form].fmt, wire[form].doc)]]
    /\ UNCHANGED <<base, heap, result, wraps, last, dc, record, wire>>

\* ------------------------------------------------- documents from outside
\* The messages of the records of the tests.
Msgs == {"outer error", "root cause"}

\* Sequences over S of length lo..hi.
SeqsOf(S, lo, hi) == UNION {[1..n -> S] : n \in lo..hi}

\* A logical ErrorRecord: the top-level type_name (or none) and the
\* messages of the chain, head to root.
LogicalRecords ==
    [type_name : {None, Some("FakeError"), Some("")}, msgs : SeqsOf(Msgs, 1, MaxDepth)]

\* The keyed encoding of the nodes k.. of a chain: msg, source.
RECURSIVE KeyedSource(_, _)
KeyedSource(msgs, k) ==
    DMap(<< DEntry("msg", DStr(msgs[k])),
            DEntry("source", IF k < Len(msgs) THEN KeyedSource(msgs, k + 1)
                             ELSE DNull) >>)

\* The keyed encoding of a logical record: type_name when there is one,
\* msg, source.
KeyedRecord(rec) ==
    DMap((IF rec.type_name.some
            THEN <<DEntry("type_name", DStr(rec.type_name.v))>> ELSE <<>>)
         \o << DEntry("msg", DStr(rec.msgs[1])),
                DEntry("source", IF Len(rec.msgs) > 1
                                   THEN KeyedSource(rec.msgs, 2) ELSE DNull) >>)

\* Some(x) in a positional document of format f.
PosSome(f, x) == IF f = "bincode" THEN DSome(x) ELSE x

\* The positional encoding of the nodes k.. of a chain: msg, source.
RECURSIVE PositionalSource(_, _, _)
PositionalSource(f, msgs, k) ==
    DSeq(<< DStr(msgs[k]),
            IF k < Len(msgs) THEN PosSome(f, PositionalSource(f, msgs, k + 1))
            ELSE DNull >>)

\* The positional encoding of a logical record: type_name, msg, source.
PositionalRecord(f, rec) ==
    DSeq(<< IF rec.type_name.some THEN PosSome(f, DStr(rec.type_name.v))
            ELSE DNull,
            DStr(rec.msgs[1]),
            IF Len(rec.msgs) > 1 THEN PosSome(f, PositionalSource(f, rec.msgs, 2))
            ELSE DNull >>)

\* A process that holds no error of its own is handed one logical record
\* in both encodings.
ReceiveRecord ==
    /\ heap = <<>> /\ last = NoCall /\ wire = NoWire
    /\ \E rec \in LogicalRecords, f \in {"json", "bincode"} :
          wire' = [origin |-> "record", rec |-> rec,
                   keyed |-> Doc("json", KeyedRecord(rec)),
                   positional |-> Doc(f, PositionalRecord(f, rec))]
    /\ out' = NoOuts
    /\ UNCHANGED <<base, heap, result, wraps, last, dc, record>>

\* The field names and the values a keyed node from outside may carry.
KeyNames == {"type_name", "msg", "source", "backtrace", "type"}
LeafNode == KeyedSource(<<"root cause">>, 1)
KeyValues == {DStr("outer error"), DNull, LeafNode}
KeyedEntries == {DEntry(k, x) : k \in KeyNames, x \in KeyValues}
KeyedNodes == SeqsOf(KeyedEntries, 0, MaxFields)

\* A keyed document whose node at `level` (1: the top-level record, 2: its
\* source) carries the entries es.
KeyedNodeDoc(level, es) ==
    IF level = 1 THEN DMap(es)
    ELSE DMap(<<DEntry("msg", DStr("outer error")), DEntry("source", DMap(es))>>)

\* A process that holds no error of its own is handed a keyed document.
ReceiveKeyed ==
    /\ heap = <<>> /\ last = NoCall /\ wire = NoWire
    /\ \E level \in 1..2, es \in KeyedNodes :
          wire' = [origin |-> "keyed_node", level |-> level, es |-> es,
                   keyed |-> Doc("json", KeyedNodeDoc(level, es)),
                   positional |-> NoDoc]
    /\ out' = NoOuts
    /\ UNCHANGED <<base, heap, result, wraps, last, dc, record>>

\* The elements a positional node from outside may carry.
PositionalLeaf == PositionalSource("json", <<"root cause">>, 1)
PositionalValues == {DStr("outer error"), DNull, PositionalLeaf}
PositionalNodes == SeqsOf(PositionalValues, 0, MaxFields)

\* A positional document whose node at `level` (1: the top-level record,
\* 2: its source) carries the elements xs.
PositionalNodeDoc(level, xs) ==
    IF level = 1 THEN DSeq(xs)
    ELSE DSeq(<<DNull, DStr("outer error"), DSeq(xs)>>)

\* A process that holds no error of its own is handed a positional document
\* of a self-describing format, whose sequences end where the sender ended
\* them.
ReceivePositional ==
    /\ heap = <<>> /\ last = NoCall /\ wire = NoWire
    /\ \E level \in 1..2, xs \in PositionalNodes :
          wire' = [origin |-> "positional_node", level |-> level, xs |-> xs,
                   keyed |-> NoDoc,
                   positional |-> Doc("json", PositionalNodeDoc(level, xs))]
    /\ out' = NoOuts
    /\ UNCHANGED <<base, heap, result, wraps, last, dc, record>>

\* ------------------------------------------------------------ the system
Init ==
    /\ \E v \in {"contents"}, c \in BaseChains :
          \/ heap = <<>> /\ result = Ok(v)
          \/ heap = c /\ result = Err(Len(c))
    /\ base = heap
    /\ wraps = <<>>
    /\ last = NoCall
    /\ dc = DcIdle
    /\ record = NoRecord
    /\ wire = NoWire
    /\ out = NoOuts

Next ==
    \/ \E d \in Contexts, E2 \in WrapTypes : WrapErr(d, E2)
    \/ \E d \in Contexts, E2 \in WrapTypes : WrapErrWith(d, E2)
    \/ \E T \in Targets : DowncastStart(T)
    \/ DowncastStep
    \/ \E entry \in {"concrete", "dyn"} : Serialize(entry)
    \/ \E form \in Forms : Deserialize(form)
    \/ ReceiveRecord
    \/ ReceiveKeyed
    \/ ReceivePositional

Spec == Init /\ [][Next]_vars

\* downcast_refchain is a synchronous call: once entered, its loop runs.
LiveSpec == Spec /\ WF_vars(DowncastStep)

\* ================================================================ claims
\* The chain of the error of the current Result, head to root.
Chain == ChainOf(heap, result)

\* What a Display value shows.
Shown(d) == IF d.kind = "str" THEN d.s ELSE "404"

\* Reverse of a sequence.
Rev(q) == [k \in 1..Len(q) |-> q[Len(q) + 1 - k]]

\* C1: the record ErrTools::serialize emits for a chain of length n, from
\* either entry and in either encoding, is accepted by the deserializer of
\* deserialize::Error and gives a chain of n nodes with the same messages,
\* head to root.
RoundTrip ==
    \A form \in Forms :
        (wire.origin = "serialize" /\ out[form].ran) =>
            /\ out[form].res.ok
            /\ Report(out[form].res.v) = Messages(heap, ChainFrom(heap, record.self))

\* C2: downcast_refchain::<T> returns the node nearest the head whose type
\* is T, and None exactly when the chain has no node of type T.
DowncastNearest ==
    dc.pc = "done" =>
        LET c == ChainFrom(heap, dc.self)
            hits == {k \in 1..Len(c) : heap[c[k]].type = dc.target}
        IN  IF hits = {} THEN dc.ret = None
            ELSE /\ dc.ret.some
                 /\ \E k \in hits : /\ dc.ret.v = c[k]
                                    /\ \A j \in hits : k <= j

\* C2 witness: the walk returned a node although a deeper node has the
\* same type.
DowncastNearestReached ==
    /\ dc.pc = "done"
    /\ dc.ret.some
    /\ \E i \in 1..Len(heap) : i < dc.ret.v /\ heap[i].type = dc.target

\* C3: wrap_err leaves Ok(v) as it is and builds nothing; on Err(e) it
\* returns Err(E2::from((e, rendering of ctx))), whose source is e and whose
\* message is ctx.
WrapErrResult ==
    last.op = "wrap_err" =>
        IF last.before.ok
          THEN result = last.before /\ last.built = 0 /\ heap = <<>>
          ELSE /\ ~result.ok
               /\ last.built = 1
               /\ last.arg = Some(<<last.before.e, Shown(last.ctx)>>)
               /\ heap[result.e].source = last.before.e
               /\ heap[result.e].msg = Shown(last.ctx)
               /\ result.e = Len(heap)
               /\ Len(heap) = Len(base) + Len(wraps)

\* C3 witness: wrap_err was applied to a failure with a context that is not
\* a string.
WrapErrResultReached ==
    /\ last.op = "wrap_err"
    /\ ~last.before.ok
    /\ last.ctx.kind = "int"
    /\ heap[result.e].msg = "404"

\* C4: wrap_err_with calls the callback zero times on Ok and once on Err,
\* and the message it returns goes to the E2 constructor with the original
\* error.
WrapErrWithCalls ==
    last.op = "wrap_err_with" =>
        IF last.before.ok
          THEN last.calls = 0 /\ last.built = 0 /\ result = last.before
          ELSE /\ last.calls = 1
               /\ last.arg = Some(<<last.before.e, Shown(last.ctx)>>)
               /\ heap[result.e].msg = Shown(last.ctx)
               /\ heap[result.e].source = last.before.e

\* C4 witness: wrap_err_with was applied to a success.
WrapErrWithCallsReached ==
    /\ last.op = "wrap_err_with"
    /\ last.before.ok
    /\ last.calls = 0

\* C8: after k wraps with contexts m_1..m_k of a failure whose chain is
\* c_1..c_m the chain has m + k nodes and reads m_k, .., m_1, msg(c_1), ..,
\* msg(c_m); a wrap adds one head and leaves every existing node as it was.
WrapChainShape ==
    ~result.ok =>
        /\ Len(Chain) = Len(base) + Len(wraps)
        /\ Messages(heap, Chain) =
              Rev([k \in 1..Len(wraps) |-> Shown(wraps[k])])
              \o Messages(base, ChainFrom(base, Len(base)))

WrapKeepsNodes ==
    heap' # heap =>
        /\ Len(heap') = Len(heap) + 1
        /\ \A i \in 1..Len(heap) : heap'[i] = heap[i]
        /\ ChainOf(heap', result') = <<Len(heap')>> \o Chain

WrapChain == []WrapChainShape /\ [][WrapKeepsNodes]_vars

\* C8 witness: "file not found" wrapped with "reading config" and then
\* "startup failed".
WrapChainReached ==
    /\ ~result.ok
    /\ Messages(heap, Chain) = <<"startup failed", "reading config", "file not found">>
Accepted(level) == IF level = 1 THEN {"type_name", "msg", "source"} ELSE {"msg", "source"}
Keys(es) == {es[k].key : k \in 1..Len(es)}
Count(es, name) == Cardinality({k \in 1..Len(es) : es[k].key = name})
HasUnknown(level, es) == Keys(es) \ Accepted(level) # {}
HasDuplicate(level, es) == \E name \in Accepted(level) : Count(es, name) > 1
HasMissing(es) == {"msg", "source"} \ Keys(es) # {}
Faulty(level, es) == HasUnknown(level, es) \/ HasDuplicate(level, es) \/ HasMissing(es)

\* The value of an accepted field has the type its slot reads: a string for
\* type_name and msg, the no-cause marker or a node for source.
WellTyped(es) ==
    \A k \in 1..Len(es) :
        /\ es[k].key \in {"type_name", "msg"} => es[k].val.t = "str"
        /\ es[k].key = "source" => es[k].val \in {DNull, LeafNode}

\* The value of the field `name` of a node without duplicates.
ValueOf(es, name) == es[CHOOSE k \in 1..Len(es) : es[k].key = name].val

\* The node a fault-free, well-typed sequence of entries describes.
NodeOf(es) ==
    [msg |-> ValueOf(es, "msg").s,
     source |-> IF ValueOf(es, "source") = DNull THEN None
                ELSE Some([msg |-> "root cause", source |-> None])]

\* C6: a keyed node, top-level or nested, with an unknown field, a field
\* given twice, or no msg or no source is rejected with an error value; the
\* error kind tells which of the three it is and names the field; a node
\* with none of these faults is accepted whatever the order of its fields.
KeyedFaults ==
    (wire.origin = "keyed_node" /\ out.keyed.ran) =>
        LET es == wire.es
            level == wire.level
            r == out.keyed.res
        IN  /\ Faulty(level, es) => ~r.ok
            /\ (~r.ok /\ WellTyped(es)) =>
                  r.kind \in {"unknown_field", "duplicate_field", "missing_field"}
            /\ (~r.ok /\ r.kind = "unknown_field") =>
                  r.field \in Keys(es) \ Accepted(level)
            /\ (~r.ok /\ r.kind = "duplicate_field") =>
                  r.field \in Accepted(level) /\ Count(es, r.field) > 1
            /\ (~r.ok /\ r.kind = "missing_field") =>
                  r.field \in {"msg", "source"} \ Keys(es)
            /\ (~Faulty(level, es) /\ WellTyped(es)) =>
                  /\ r.ok
                  /\ IF level = 1
                       THEN /\ r.v.msg = NodeOf(es).msg
                            /\ r.v.source = NodeOf(es).source
                            /\ r.v.type_name =
                                 (IF "type_name" \in Keys(es)
                                    THEN Some(ValueOf(es, "type_name").s) ELSE None)
                       ELSE r.v.source = Some(NodeOf(es))

\* C6 witness: a nested node that repeats msg after source was rejected as
\* a duplicate of msg.
KeyedFaultsReached ==
    /\ wire.origin = "keyed_node"
    /\ wire.level = 2
    /\ Len(wire.es) = 3
    /\ wire.es[1].key = "source" /\ wire.es[2].key = "msg" /\ wire.es[3].key = "msg"
    /\ out.keyed.ran
    /\ ~out.keyed.res.ok
    /\ out.keyed.res.kind = "duplicate_field"
    /\ out.keyed.res.field = "msg"

\* The field names of a serialized record, in the order they were written.
FieldNames(x) == [k \in 1..Len(x.fields) |-> x.fields[k].key]
FieldValue(x, name) == x.fields[CHOOSE k \in 1..Len(x.fields) : x.fields[k].key = name].val

\* The records of a serialized chain, head to root.
RECURSIVE RecordChain(_)
RecordChain(x) ==
    <<x>> \o (IF FieldValue(x, "source").d = "some"
                THEN RecordChain(FieldValue(x, "source").v) ELSE <<>>)

\* C7: the concrete entry writes type_name (the name of the concrete type),
\* msg, backtrace and source at the outermost record; the type-erased entry
\* writes the same without a type-name field; every nested cause is written
\* in the type-erased form.
SerializedShape ==
    record.entry # "none" =>
        LET rs == RecordChain(record.v) IN
        /\ record.entry = "concrete" =>
              /\ FieldNames(rs[1]) = <<"type_name", "msg", "backtrace", "source">>
              /\ FieldValue(rs[1], "type_name") = VStr(heap[record.self].type)
        /\ record.entry = "dyn" =>
              FieldNames(rs[1]) = <<"msg", "backtrace", "source">>
        /\ \A k \in 2..Len(rs) : FieldNames(rs[k]) = <<"msg", "backtrace", "source">>

\* C9: the record serialized from a chain of length n has depth n, its
\* i-th record holds the message of the i-th node, and its source is absent
\* at the n-th record only; serializing leaves the chain as it was.
RecordShape ==
    record.entry # "none" =>
        LET rs == RecordChain(record.v)
            c == ChainFrom(heap, record.self)
        IN  /\ Len(rs) = Len(c)
            /\ \A k \in 1..Len(rs) :
                  /\ FieldValue(rs[k], "msg") = VStr(heap[c[k]].msg)
                  /\ Count(rs[k].fields, "source") = 1
                  /\ (FieldValue(rs[k], "source") = VNone) <=> (k = Len(c))

SerializeReadsOnly ==
    (record' # record /\ record'.entry # "none") =>
        heap' = heap /\ result' = result

RecordOfChain == []RecordShape /\ [][SerializeReadsOnly]_vars

\* C9 witness: a chain of four nodes was serialized from the concrete entry.
RecordOfChainReached ==
    /\ record.entry = "concrete"
    /\ Len(ChainFrom(heap, record.self)) = 4
    /\ Len(RecordChain(record.v)) = 4
\* C10: on a chain of length n the walk of downcast_refchain makes at most
\* n type checks, moves one node toward the root on each miss, stops at the
\* first match, stops with None once the root's source is None, visits no
\* node twice, and always returns.
DowncastWalk ==
    dc.pc \in {"loop", "done"} =>
        LET c == ChainFrom(heap, dc.self)
            n == Len(dc.checked)
        IN  /\ n <= Len(c)
            /\ dc.checked = SubSeq(c, 1, n)
            /\ \A k \in 1..(n - 1) : heap[dc.checked[k]].type # dc.target
            /\ dc.pc = "loop" =>
                  /\ \A k \in 1..n : heap[dc.checked[k]].type # dc.target
                  /\ dc.cur = (IF n < Len(c) THEN Some(c[n + 1]) ELSE None)
            /\ dc.pc = "done" =>
                  IF dc.ret.some
                    THEN n >= 1 /\ dc.ret.v = dc.checked[n]
                         /\ heap[dc.checked[n]].type = dc.target
                    ELSE n = Len(c) /\ heap[dc.checked[n]].type # dc.target

DowncastTerminates == []DowncastWalk /\ ((dc.pc = "loop") ~> (dc.pc = "done"))

\* C10 witness: a walk over a chain of four nodes returned None after it
\* had checked every node.
DowncastTerminatesReached ==
    /\ dc.pc = "done"
    /\ ~dc.ret.some
    /\ Len(dc.checked) = 4
\* The nodes below the head of a deserialized chain.
RECURSIVE SourceNodes(_)
SourceNodes(src) == IF src.some THEN <<src.v>> \o SourceNodes(src.v.source) ELSE <<>>

\* The entries before the first type_name key of a node.
BeforeTypeName(es) ==
    SubSeq(es, 1, (CHOOSE k \in 1..Len(es) :
                      /\ es[k].key = "type_name"
                      /\ \A j \in 1..(k - 1) : es[j].key # "type_name") - 1)

\* C11: only the top-level record carries type_name: a deserialized chain
\* stores type_name at the head only; a keyed nested node with a type_name
\* key is rejected as the unknown field type_name; a positional nested node
\* is msg then source and nothing else; a keyed top-level record without a
\* type_name key is accepted with type_name None.
TypeNameAtHeadOnly ==
    /\ \A form \in Forms :
          (out[form].ran /\ out[form].res.ok) =>
              /\ DOMAIN out[form].res.v = {"type_name", "msg", "source"}
              /\ \A k \in 1..Len(SourceNodes(out[form].res.v.source)) :
                    DOMAIN SourceNodes(out[form].res.v.source)[k] = {"msg", "source"}
    /\ (wire.origin = "keyed_node" /\ out.keyed.ran) =>
          LET es == wire.es
              r == out.keyed.res
          IN  /\ (wire.level = 2 /\ "type_name" \in Keys(es)) =>
                    /\ ~r.ok
                    /\ ( /\ WellTyped(BeforeTypeName(es))
                         /\ ~HasUnknown(2, BeforeTypeName(es))
                         /\ ~HasDuplicate(2, BeforeTypeName(es)) )
                       => r = unknown_field("type_name")
              /\ ( /\ wire.level = 1
                   /\ "type_name" \notin Keys(es)
                   /\ ~Faulty(1, es)
                   /\ WellTyped(es) ) =>
                    r.ok /\ r.v.type_name = None
    /\ (wire.origin = "positional_node" /\ wire.level = 2 /\ out.positional.ran) =>
          LET xs == wire.xs
              r == out.positional.res
          IN  /\ r.ok <=> ( /\ Len(xs) = 2
                            /\ xs[1].t = "str"
                            /\ xs[2] \in {DNull, PositionalLeaf} )
              /\ r.ok => /\ r.v.source.v.msg = xs[1].s
                         /\ r.v.source.v.source.some = (xs[2] # DNull)

\* C11 witness: a keyed nested node with type_name between msg and source
\* was rejected as the unknown field type_name.
TypeNameAtHeadOnlyReached ==
    /\ wire.origin = "keyed_node"
    /\ wire.level = 2
    /\ Len(wire.es) = 3
    /\ wire.es[1].key = "msg" /\ wire.es[1].val.t = "str"
    /\ wire.es[2].key = "type_name"
    /\ wire.es[3].key = "source"
    /\ out.keyed.ran
    /\ out.keyed.res = unknown_field("type_name")
\* The number of elements a positional node at `level` is read for.
Wanted(level) == IF level = 1 THEN 3 ELSE 2

\* The elements a positional node supplies have the types their slots read.
SlotsTyped(level, xs) ==
    \A k \in 1..Len(xs) :
        LET slot == IF level = 1 THEN k ELSE k + 1 IN
        /\ slot = 1 => xs[k].t \in {"null", "str"}
        /\ slot = 2 => xs[k].t = "str"
        /\ slot = 3 => xs[k] \in {DNull, PositionalLeaf}

\* C12: a decoding failure names the place that caused it: a positional
\* node that runs out of elements, top-level or nested, is rejected with
\* invalid_length of the number of elements it supplied (0 when the first
\* is missing); a keyed node's unknown, duplicate or missing field is
\* reported by its own name.
FailureNamesItsPlace ==
    /\ (wire.origin = "positional_node" /\ out.positional.ran) =>
          ( ( Len(wire.xs) < Wanted(wire.level) /\ SlotsTyped(wire.level, wire.xs) )
             => out.positional.res = invalid_length(Len(wire.xs)) )
    /\ (wire.origin = "keyed_node" /\ out.keyed.ran /\ ~out.keyed.res.ok) =>
          LET es == wire.es
              r == out.keyed.res
          IN  /\ r.kind = "unknown_field" => r.field \in Keys(es) \ Accepted(wire.level)
              /\ r.kind = "duplicate_field" => Count(es, r.field) > 1
              /\ r.kind = "missing_field" => r.field \notin Keys(es)
====
